---- MODULE Spec2Model ----
(***************************************************************************)
(* The eevee versioned bulk indexing pipeline (eevee/indexing/indexers.py, *)
(* eevee/indexing/indexes.py): one Indexer.index() coordinator, a pool of  *)
(* IndexingProcess workers, the stats collector thread, the four queues    *)
(* that connect them and the elasticsearch index they write to.            *)
(***************************************************************************)
EXTENDS Integers, Sequences, FiniteSets, TLC

\* ------------------------------------------------------------------ bounds
MaxPool == 2        \* pool_size ranges over 1..MaxPool
MaxQueue == 2       \* queue_size ranges over 1..MaxQueue
MaxBulk == 2        \* elasticsearch_bulk_size ranges over 1..MaxBulk
MaxDocs == 2        \* a feeder yields at most MaxDocs documents
MaxId == 2          \* record ids are 1..MaxId
MaxVersion == 2     \* version stamps are 1..MaxVersion
MaxRuns == 2        \* index() is run at most MaxRuns times in succession
MaxPairs == 2       \* an Indexer has at most MaxPairs (feeder, index) pairs
MaxBefore == 1      \* version stamps go back to MaxBefore before the epoch
MaxLongDocs == 3    \* a long feeder yields at most MaxLongDocs documents

\* the earliest version stamp of the command generator's inputs
MinVersion == 0 - MaxBefore

\* maxsize of the stats queue (multiprocessing.Queue(maxsize=10))
StatsQueueMaxSize == 10

\* ------------------------------------------------------------- plain data
\* Python's None, and an optional value: <<>> is None, <<x>> is x.
None == <<>>
Some(x) == <<x>>

Min(a, b) == IF a <= b THEN a ELSE b

Range(s) == {s[i] : i \in 1..Len(s)}

RECURSIVE SetToSeq(_)
\* a finite set of integers as the ascending list of its elements
SetToSeq(S) ==
  IF S = {} THEN <<>>
  ELSE LET m == CHOOSE x \in S : \A y \in S : x <= y
       IN <<m>> \o SetToSeq(S \ {m})

RECURSIVE SumOver(_, _)
SumOver(f, S) ==
  IF S = {} THEN 0
  ELSE LET x == CHOOSE y \in S : TRUE IN f[x] + SumOver(f, S \ {x})

\* ------------------------------------------------- source documents
\* A mongo document: its id and its ascending, duplicate-free version list.
\* The data of revision v of record i is [_id |-> i, value |-> v]: the record
\* id is a field of the data (the terms filters of the workers are on
\* data._id), value stands for the rest of the revision's content.
VersionLists == {[i \in 1..n |-> i] : n \in 0..MaxVersion}
MongoDocs == [id : 1..MaxId, versions : VersionLists]
Feeders == UNION {[1..n -> MongoDocs] : n \in 0..MaxDocs}

\* Every ascending, duplicate-free list of version stamps (epoch milliseconds,
\* which are integers) over MinVersion..MaxVersion.
AscendingLists == {SetToSeq(S) : S \in SUBSET (MinVersion..MaxVersion)}

\* Index.__init__: the name is the configured prefix and the unprefixed name
IndexPrefix == "pre-"
UnprefixedName == "idx"
IndexName == IndexPrefix \o UnprefixedName

\* eevee.indexing.utils.get_versions_and_data: the (version, data) pairs of a
\* document, ascending by version.
get_versions_and_data(mongo_doc) ==
  [i \in 1..Len(mongo_doc.versions) |->
     <<Some(mongo_doc.versions[i]),
       Some([_id |-> mongo_doc.id, value |-> mongo_doc.versions[i]])>>]

\* eevee.utils.iter_pairs: each element with its successor, the last one
\* paired with final_partner. The components of an element are optional
\* values, as the final partner (None, None) has None for both.
iter_pairs(s, final_partner) ==
  [i \in 1..Len(s) |-> <<s[i], IF i < Len(s) THEN s[i + 1] ELSE final_partner>>]

\* Python truthiness of an optional integer: None and 0 are falsy.
Truthy(opt) == opt # None /\ opt[1] # 0

create_actionNoVersion(record_id, version) ==
  [_id |-> <<record_id, record_id>>, _index |-> IndexName]

\* Index.create_action: the _id is "<record_id>:<version>", modelled as the
\* pair it is formatted from (the formatting is injective on integer pairs).
create_action(record_id, version) ==
  [_id |-> <<record_id, version>>, _index |-> IndexName]

\* Index.create_data
create_data(data) == data

\* Index.create_metadata: a key that is absent from the dict is None here.
create_metadata(version, next_version) ==
  [versions |-> [gte |-> version,
                 lt |-> IF Truthy(next_version) THEN next_version ELSE None],
   version |-> version,
   next_version |-> IF Truthy(next_version) THEN next_version ELSE None]

\* Index.create_index_document
create_index_document(data, version, next_version) ==
  [data |-> create_data(data), meta |-> create_metadata(version, next_version)]

\* Index.get_commands: the list of (action, index document) pairs of a document.
get_commands(mongo_doc) ==
  LET pairs == iter_pairs(get_versions_and_data(mongo_doc), <<None, None>>)
  IN [i \in 1..Len(pairs) |->
        LET version == pairs[i][1][1][1]
            data == pairs[i][1][2][1]
            next_version == pairs[i][2][1]
        IN <<create_action(mongo_doc.id, version),
             create_index_document(data, version, next_version)>>]

\* ------------------------------------------------------- the search cluster
\* The target index is the set of its stored documents, each with its _id and
\* its _source; a search or a delete_by_query sees every stored document.
StoredDoc(command) == [_id |-> command[1]._id, source |-> command[2]]

\* What an earlier run left in a non-empty index: for every record id the
\* revisions of the full version list 1..MaxVersion.
PriorDocs ==
  UNION {{StoredDoc(c) : c \in Range(get_commands(
             [id |-> r, versions |-> [i \in 1..MaxVersion |-> i]]))} : r \in 1..MaxId}

InitialIndexes == {{}, PriorDocs}

\* the documents a terms filter on data._id matches
Matching(index, ids) == {d \in index : d.source.data._id \in ids}

\* a query at time T on the date_range field meta.versions: the range of the
\* stored metadata holds T, a range without lt being open-ended
InRange(meta, T) ==
  /\ meta.versions.gte <= T
  /\ meta.versions.lt # None => T < meta.versions.lt[1]

\* Search(...).count() == 0
IsClean(index) == Cardinality(index) = 0

RECURSIVE HitIds(_, _)
\* [hit.data._id for hit in hits]: one entry per hit, listed by record id
HitIds(hits, ids) ==
  IF ids = {} THEN <<>>
  ELSE LET r == CHOOSE x \in ids : \A y \in ids : x <= y
       IN [i \in 1..Cardinality(Matching(hits, {r})) |-> r] \o HitIds(hits, ids \ {r})

\* the hit sets a search with extra(size=size) may return
SearchResults(index, ids, size) ==
  LET m == Matching(index, ids)
  IN {h \in SUBSET m : Cardinality(h) = Min(size, Cardinality(m))}

DeleteByQueryAll(index, ids) == {}

DeleteByQueryFirstId(index, ids) ==
  index \ Matching(index, {r \in ids : \A y \in ids : r <= y})

\* delete_by_query with the terms filter
DeleteByQuery(index, ids) == index \ Matching(index, ids)

\* one "index" action of a bulk request: the document replaces the stored
\* document of the same _id; the item's result says which it was
IndexResult(index, command) ==
  IF \E d \in index : d._id = command[1]._id THEN "updated" ELSE "created"

IndexOne(index, command) ==
  {d \in index : d._id # command[1]._id} \cup {StoredDoc(command)}

RECURSIVE BulkApply(_, _, _, _)
\* the bulk request's commands applied in order, those at the positions in
\* `applied` taking effect: the index after it and the items' results
BulkApply(index, commands, applied, i) ==
  IF i > Len(commands) THEN [index |-> index, results |-> <<>>]
  ELSE IF i \in applied
       THEN LET rest == BulkApply(IndexOne(index, commands[i]), commands, applied, i + 1)
            IN [index |-> rest.index,
                results |-> <<IndexResult(index, commands[i])>> \o rest.results]
       ELSE BulkApply(index, commands, applied, i + 1)

\* the response of a bulk request that has errors: the positions of the items
\* that took effect, the others carry an error
BulkErrorResponse(applied) == [errors |-> TRUE, applied |-> applied]

\* ElasticsearchBulkIndexingException(response): the message is the argument
\* of Exception.__init__, the response an attribute of the object
ElasticsearchBulkIndexingException(elasticsearch_response) ==
  [class |-> "ElasticsearchBulkIndexingException",
   args |-> <<"Elasticsearch indexing failed">>,
   elasticsearch_response |-> elasticsearch_response]

\* an exception of the elasticsearch client
TransportError == [class |-> "TransportError", args |-> <<>>]

\* repr(e): the class of the exception and its args, nothing else of the object
Repr(e) == [class |-> e.class, args |-> e.args]

\* repr(e) of the exceptions a worker can meet
BulkErrorRepr == Repr(ElasticsearchBulkIndexingException(BulkErrorResponse({})))
TransportErrorRepr == Repr(TransportError)

\* what leaves index() when the coordinator is interrupted, and when the
\* feeder's cursor raises
KeyboardInterrupt == [class |-> "KeyboardInterrupt", args |-> <<>>]
FeederError == [class |-> "Exception", args |-> <<>>]

\* the collection names of the feeders, in the order sorted() gives strings
CollectionNames == <<"a", "b">>

\* sorted(set(names)) of a list of names, `order` being every name there is
\* in the order sorted() gives strings
SortedSet(names, order) == SelectSeq(order, LAMBDA n : n \in Range(names))

\* the version the Indexer indexes up to, and the version of the run before
Version == MaxVersion
PriorVersion == MaxVersion - 1

\* ------------------------------------------------------------------- state
Procs == 0..(MaxPool - 1)
\* every record id of a feeder, the long feeders included, and every _id
RecordIds == 1..(IF MaxLongDocs > MaxId THEN MaxLongDocs ELSE MaxId)
AllIds == RecordIds \X (MinVersion..MaxVersion)

VARIABLES
  \* Indexer.__init__ arguments; feeders_and_indexes is pair_total pairs of
  \* a feeder and the one target index, the feeders yield the same documents
  \* and mongo_collection is the collection name of the feeder of each pair
  pool_size, queue_size, elasticsearch_bulk_size, signal_stats, feeder,
  update_status, pair_total, mongo_collection,
  \* the search cluster: the target index, its refresh interval, and the
  \* status index (latest_version of the status document of each index name)
  es_index, refresh_interval, status_index,
  \* the queues of Indexer.index
  document_queue, result_queue, error_queue, stats_queue,
  \* IndexingProcess, per process id: position and fields, the locals of run
  \* and of send_to_elasticsearch
  wpc, command_buffer, id_buffer, w_command_count, w_versions, w_stats,
  created, updated, residual,
  \* Indexer.index: position and locals, the number of the pair in hand
  cpc, doc_index, sentinels_put, process_pool, document_count, command_count,
  seen_versions, op_stats, clean, error_string, exc, pair,
  \* how often index_signal and finish_signal have been sent
  index_signals, finish_signals,
  \* Indexer.stats_collector: position, and the signals sent for the tuple
  \* it read last
  spc, last_tuple, signals,
  \* history: the number of the run, the index as the first run left it, who
  \* took each feeder document, how often each command was sent in a bulk
  \* request, the cluster calls of each worker's current flush, whether a
  \* worker ever called delete_by_query, the ids the index held at the
  \* worker's last classification, the ids classified over the run, whether
  \* a cluster call failed
  run, first_run_index, received, submitted, w_log, w_deleted, existing,
  run_created, run_updated, cluster_failed,
  \* history: the status documents written in the run, what each process has
  \* put on the result and the error queue, the bulk response with errors a
  \* process got
  status_writes, posts, w_response,
  \* the report index() returns, and history: the meta.version values of the
  \* commands the processes of the run have created
  report, emitted,
  \* history, per process: how often it has called send_to_elasticsearch, and
  \* which feeder document it added to its buffers last (0: none since the
  \* buffers were reset)
  flushes, last_doc,
  \* history of the run: the record ids whose commands were in a bulk request
  \* that was answered without errors, how many tuples the processes have
  \* put on the stats queue, how many the stats collector has dispatched
  bulk_ok, pushed, dispatched

cfgVars == <<pool_size, queue_size, elasticsearch_bulk_size, signal_stats, feeder,
             update_status, pair_total, mongo_collection>>
clusterVars == <<es_index, refresh_interval>>
queueVars == <<document_queue, result_queue, error_queue, stats_queue>>
bufferVars == <<command_buffer, id_buffer, residual>>
workerVars == <<wpc, command_buffer, id_buffer, w_command_count, w_versions, w_stats,
                created, updated, residual>>
coordVars == <<cpc, doc_index, sentinels_put, process_pool, document_count,
               command_count, seen_versions, op_stats, clean, error_string, exc>>
collectorVars == <<spc, last_tuple, signals>>
runVars == <<run, first_run_index>>
historyVars == <<received, submitted, w_log, w_deleted, existing, run_created,
                 run_updated, cluster_failed>>
statusVars == <<pair, status_index, status_writes>>
signalVars == <<index_signals, finish_signals>>
postVars == <<posts, w_response>>
reportVars == <<report, emitted>>
flushVars == <<flushes, last_doc>>
notifyVars == <<bulk_ok, pushed, dispatched>>
vars == <<cfgVars, clusterVars, queueVars, workerVars, coordVars, collectorVars,
          runVars, historyVars, statusVars, signalVars, postVars, reportVars,
          flushVars, notifyVars>>

EmptyDict == [x \in {} |-> None]
NoStats == [created |-> 0, updated |-> 0]

\* the status documents an earlier run left: none for an empty index, the
\* earlier run's version for an index that holds documents
PriorStatus(index) ==
  [n \in {IndexName} |-> IF IsClean(index) THEN None ELSE Some(PriorVersion)]

\* the state after construction with a feeder of `feeders`, whatever
\* update_status and the pairs are
Constructed(feeders) ==
  /\ pool_size \in 1..MaxPool
  /\ queue_size \in 1..MaxQueue
  /\ elasticsearch_bulk_size \in 1..MaxBulk
  /\ signal_stats \in BOOLEAN
  /\ feeder \in feeders
  /\ es_index \in InitialIndexes
  /\ refresh_interval = "default"
  /\ document_queue = <<>> /\ result_queue = <<>>
  /\ error_queue = <<>> /\ stats_queue = <<>>
  /\ wpc = [w \in Procs |-> "idle"]
  /\ command_buffer = [w \in Procs |-> <<>>]
  /\ id_buffer = [w \in Procs |-> EmptyDict]
  /\ w_command_count = [w \in Procs |-> 0]
  /\ w_versions = [w \in Procs |-> {}]
  /\ w_stats = [w \in Procs |-> NoStats]
  /\ created = [w \in Procs |-> <<>>]
  /\ updated = [w \in Procs |-> <<>>]
  /\ residual = [w \in Procs |-> FALSE]
  /\ cpc = "start"
  /\ doc_index = 0 /\ sentinels_put = 0 /\ process_pool = {}
  /\ document_count = 0 /\ command_count = 0
  /\ seen_versions = {} /\ op_stats = NoStats
  /\ clean = FALSE /\ error_string = None /\ exc = None
  /\ spc = "idle" /\ last_tuple = None /\ signals = <<>>
  /\ run = 1 /\ first_run_index = {}
  /\ received = [i \in 1..Len(feeder) |-> {}]
  /\ submitted = [a \in AllIds |-> 0]
  /\ w_log = [w \in Procs |-> <<>>]
  /\ w_deleted = [w \in Procs |-> FALSE]
  /\ existing = [w \in Procs |-> {}]
  /\ run_created = {} /\ run_updated = {}
  /\ cluster_failed = FALSE
  /\ status_index = PriorStatus(es_index)
  /\ pair = 1 /\ status_writes = 0
  /\ index_signals = 0 /\ finish_signals = 0
  /\ posts = [w \in Procs |-> <<>>]
  /\ w_response = [w \in Procs |-> None]
  /\ report = None /\ emitted = {}
  /\ flushes = [w \in Procs |-> 0]
  /\ last_doc = [w \in Procs |-> 0]
  /\ bulk_ok = {} /\ pushed = 0 /\ dispatched = 0

\* every feeder reads the same collection
OneCollection == [p \in 1..MaxPairs |-> CollectionNames[1]]

\* update_status has its default, and there is one (feeder, index) pair
Init ==
  /\ update_status = TRUE
  /\ pair_total = 1
  /\ mongo_collection = OneCollection
  /\ Constructed(Feeders)

\* ------------------------------------------------------- IndexingProcess
ShouldFlushAbove(buffer, bulk_size) == Len(buffer) > bulk_size

\* the flush test of run: the bulk size limit has been reached or exceeded
ShouldFlush(buffer, bulk_size) == Len(buffer) >= bulk_size

IdBufferPutAlone(ids, mongo_doc, commands) ==
  [r \in {mongo_doc.id} |-> commands[Len(commands)][2]]

\* id_buffer[int(mongo_doc['id'])] = commands[-1][1]
IdBufferPut(ids, mongo_doc, commands) ==
  [r \in DOMAIN ids \cup {mongo_doc.id} |->
     IF r = mongo_doc.id THEN commands[Len(commands)][2] ELSE ids[r]]

\* the versions seen in the commands
CommandVersions(commands) == {commands[i][2].meta.version : i \in 1..Len(commands)}

NeedsDeleteInverted(is_clean_insert) == is_clean_insert

\* send_to_elasticsearch: the delete step is skipped on a clean insert
NeedsDelete(is_clean_insert) == ~is_clean_insert

collect_statsNoDiff(has_stats_queue, is_clean_insert, ids, hits) ==
  IF ~has_stats_queue THEN <<<<>>, <<>>>>
  ELSE IF is_clean_insert THEN <<SetToSeq(DOMAIN ids), <<>>>>
  ELSE <<SetToSeq(DOMAIN ids), HitIds(hits, DOMAIN ids)>>

\* IndexingProcess.collect_stats: the created and the updated id lists, `hits`
\* being what the search returned
collect_stats(has_stats_queue, is_clean_insert, ids, hits) ==
  LET all_ids == DOMAIN ids
  IN IF ~has_stats_queue THEN <<<<>>, <<>>>>
     ELSE IF is_clean_insert THEN <<SetToSeq(all_ids), <<>>>>
     ELSE LET upd == HitIds(hits, all_ids)
          IN <<SetToSeq(all_ids \ Range(upd)), upd>>

\* whether collect_stats runs its search
Searches == signal_stats /\ ~clean

CountResultsCreatedOnly(stats, results) ==
  [k \in {"created", "updated"} |->
     stats[k] + Cardinality({i \in 1..Len(results) : results[i] = k /\ k = "created"})]

\* the stats a bulk response's items add to self.stats
CountResults(stats, results) ==
  [k \in {"created", "updated"} |->
     stats[k] + Cardinality({i \in 1..Len(results) : results[i] = k})]

\* how often each command of the buffer occurs in it, added to the history
CountSubmitted(count, commands) ==
  [a \in AllIds |->
     count[a] + Cardinality({i \in 1..Len(commands) : commands[i][1]._id = a})]

\* run: a blocking read of the document queue; a document's commands go to
\* the buffers, which are flushed when the bulk size is reached; the sentinel
\* ends the loop, and what is left in the buffer is flushed
WorkerGet(w) ==
  /\ wpc[w] = "get"
  /\ document_queue # <<>>
  /\ document_queue' = Tail(document_queue)
  /\ LET item == Head(document_queue)
     IN IF item = None
        THEN /\ wpc' = [wpc EXCEPT ![w] =
                          IF command_buffer[w] # <<>> THEN "send" ELSE "result"]
             /\ residual' = [residual EXCEPT ![w] = TRUE]
             /\ UNCHANGED <<command_buffer, id_buffer, w_versions, received, emitted,
                            last_doc>>
        ELSE LET mongo_doc == feeder[item[1]]
                 commands == get_commands(mongo_doc)
                 buffer == command_buffer[w] \o commands
             IN /\ received' = [received EXCEPT ![item[1]] = @ \cup {w}]
                /\ command_buffer' = [command_buffer EXCEPT ![w] = buffer]
                /\ emitted' = emitted \cup CommandVersions(commands)
                /\ last_doc' = [last_doc EXCEPT ![w] = item[1]]
                /\ IF commands # <<>>
                   THEN /\ w_versions' = [w_versions EXCEPT
                                            ![w] = @ \cup CommandVersions(commands)]
                        /\ id_buffer' = [id_buffer EXCEPT
                                           ![w] = IdBufferPut(@, mongo_doc, commands)]
                   ELSE UNCHANGED <<w_versions, id_buffer>>
                /\ wpc' = [wpc EXCEPT ![w] =
                             IF ShouldFlush(buffer, elasticsearch_bulk_size)
                             THEN "send" ELSE "get"]
                /\ UNCHANGED residual
  /\ UNCHANGED <<cfgVars, clusterVars, result_queue, error_queue, stats_queue,
                 w_command_count, w_stats, created, updated, coordVars, collectorVars,
                 runVars, report, flushes, notifyVars, statusVars, signalVars, postVars,
                 submitted, w_log, w_deleted, existing, run_created, run_updated,
                 cluster_failed>>

\* send_to_elasticsearch, up to the delete step: the command count and
\* collect_stats with its search
WorkerSend(w) ==
  /\ wpc[w] = "send"
  /\ w_command_count' = [w_command_count EXCEPT ![w] = @ + Len(command_buffer[w])]
  /\ \E hits \in IF Searches
                 THEN SearchResults(es_index, DOMAIN id_buffer[w],
                                    Cardinality(DOMAIN id_buffer[w]))
                 ELSE {{}} :
       LET stats == collect_stats(signal_stats, clean, id_buffer[w], hits)
       IN /\ created' = [created EXCEPT ![w] = stats[1]]
          /\ updated' = [updated EXCEPT ![w] = stats[2]]
  /\ existing' = [existing EXCEPT ![w] =
                    {r \in DOMAIN id_buffer[w] : Matching(es_index, {r}) # {}}]
  /\ w_log' = [w_log EXCEPT ![w] = <<>>]
  /\ flushes' = [flushes EXCEPT ![w] = @ + 1]
  /\ wpc' = [wpc EXCEPT ![w] = IF NeedsDelete(clean) THEN "delete" ELSE "bulk"]
  /\ UNCHANGED <<cfgVars, clusterVars, queueVars, bufferVars, w_versions, w_stats,
                 coordVars, collectorVars, runVars, reportVars, last_doc, notifyVars,
                 statusVars, signalVars, postVars, received, submitted, w_deleted,
                 run_created, run_updated, cluster_failed>>

\* send_to_elasticsearch: delete any existing records with the ids of the batch
WorkerDelete(w) ==
  /\ wpc[w] = "delete"
  /\ es_index' = DeleteByQuery(es_index, DOMAIN id_buffer[w])
  /\ w_log' = [w_log EXCEPT ![w] = Append(@, "delete")]
  /\ w_deleted' = [w_deleted EXCEPT ![w] = TRUE]
  /\ wpc' = [wpc EXCEPT ![w] = "bulk"]
  /\ UNCHANGED <<cfgVars, refresh_interval, queueVars, bufferVars, w_command_count,
                 w_versions, w_stats, created, updated, coordVars, collectorVars,
                 runVars, reportVars, flushVars, notifyVars, statusVars, signalVars,
                 postVars, received, submitted, existing, run_created, run_updated,
                 cluster_failed>>

AfterSendNoReset(w) ==
  /\ created' = [created EXCEPT ![w] = <<>>]
  /\ updated' = [updated EXCEPT ![w] = <<>>]
  /\ existing' = [existing EXCEPT ![w] = {}]
  /\ w_log' = [w_log EXCEPT ![w] = <<>>]
  /\ last_doc' = [last_doc EXCEPT ![w] = 0]
  /\ wpc' = [wpc EXCEPT ![w] = IF residual[w] THEN "result" ELSE "get"]
  /\ UNCHANGED bufferVars

\* back in run after send_to_elasticsearch, whose locals are gone: the buffers
\* are reset in the loop, and the result is posted after the flush that
\* follows the sentinel
AfterSend(w) ==
  /\ created' = [created EXCEPT ![w] = <<>>]
  /\ updated' = [updated EXCEPT ![w] = <<>>]
  /\ existing' = [existing EXCEPT ![w] = {}]
  /\ w_log' = [w_log EXCEPT ![w] = <<>>]
  /\ last_doc' = [last_doc EXCEPT ![w] = 0]
  /\ IF residual[w]
     THEN /\ wpc' = [wpc EXCEPT ![w] = "result"]
          /\ UNCHANGED bufferVars
     ELSE /\ wpc' = [wpc EXCEPT ![w] = "get"]
          /\ command_buffer' = [command_buffer EXCEPT ![w] = <<>>]
          /\ id_buffer' = [id_buffer EXCEPT ![w] = EmptyDict]
          /\ UNCHANGED residual

\* send_to_elasticsearch: the bulk request, answered without errors; the
\* items' results are counted
WorkerBulk(w) ==
  /\ wpc[w] = "bulk"
  /\ LET response == BulkApply(es_index, command_buffer[w],
                               1..Len(command_buffer[w]), 1)
     IN /\ es_index' = response.index
        /\ w_stats' = [w_stats EXCEPT ![w] = CountResults(@, response.results)]
  /\ submitted' = CountSubmitted(submitted, command_buffer[w])
  /\ bulk_ok' = bulk_ok \cup DOMAIN id_buffer[w]
  /\ IF signal_stats
     THEN /\ wpc' = [wpc EXCEPT ![w] = "stats_put"]
          /\ w_log' = [w_log EXCEPT ![w] = Append(@, "bulk")]
          /\ UNCHANGED <<bufferVars, created, updated, existing, last_doc>>
     ELSE AfterSend(w)
  /\ UNCHANGED <<cfgVars, refresh_interval, queueVars, w_command_count, w_versions,
                 coordVars, collectorVars, runVars, reportVars, flushes, pushed,
                 dispatched, statusVars, signalVars, postVars, received, w_deleted,
                 run_created, run_updated, cluster_failed>>

\* send_to_elasticsearch: drop the stats on to the stats queue (a blocking put)
WorkerStatsPut(w) ==
  /\ wpc[w] = "stats_put"
  /\ Len(stats_queue) < StatsQueueMaxSize
  /\ stats_queue' = Append(stats_queue,
                           Some([index |-> UnprefixedName, created |-> created[w],
                                 updated |-> updated[w], ids |-> id_buffer[w]]))
  /\ pushed' = pushed + 1
  /\ run_created' = run_created \cup Range(created[w])
  /\ run_updated' = run_updated \cup Range(updated[w])
  /\ AfterSend(w)
  /\ UNCHANGED <<cfgVars, clusterVars, document_queue, result_queue, error_queue,
                 w_command_count, w_versions, w_stats, coordVars, collectorVars,
                 runVars, reportVars, flushes, bulk_ok, dispatched, statusVars,
                 signalVars, postVars, received, submitted, w_deleted, cluster_failed>>

\* run: post the results back to the main process
WorkerResult(w) ==
  /\ wpc[w] = "result"
  /\ result_queue' = Append(result_queue,
                            [process_id |-> w, command_count |-> w_command_count[w],
                             stats |-> w_stats[w], versions |-> w_versions[w]])
  /\ wpc' = [wpc EXCEPT ![w] = "done"]
  /\ posts' = [posts EXCEPT ![w] = Append(@, "result")]
  /\ UNCHANGED <<cfgVars, clusterVars, document_queue, error_queue, stats_queue,
                 bufferVars, w_command_count, w_versions, w_stats, created, updated,
                 coordVars, collectorVars, runVars, reportVars, flushVars, notifyVars,
                 statusVars, signalVars, w_response, historyVars>>

WorkerRaiseAndGoOn(w, error) ==
  /\ error_queue' = Append(error_queue, error)
  /\ wpc' = [wpc EXCEPT ![w] = "result"]
  /\ posts' = [posts EXCEPT ![w] = Append(@, "error")]
  /\ cluster_failed' = TRUE

\* run, except Exception: the error is put on the error queue and the process
\* ends without a result
WorkerRaise(w, error) ==
  /\ error_queue' = Append(error_queue, error)
  /\ wpc' = [wpc EXCEPT ![w] = "failed"]
  /\ posts' = [posts EXCEPT ![w] = Append(@, "error")]
  /\ cluster_failed' = TRUE

\* the bulk response has errors: some commands of the request took effect,
\* at least one did not; ElasticsearchBulkIndexingException is raised
WorkerBulkErrors(w) ==
  /\ wpc[w] = "bulk"
  /\ \E applied \in SUBSET (1..Len(command_buffer[w])) :
       /\ applied # 1..Len(command_buffer[w])
       /\ es_index' = BulkApply(es_index, command_buffer[w], applied, 1).index
       /\ w_response' = [w_response EXCEPT ![w] = Some(BulkErrorResponse(applied))]
       /\ WorkerRaise(w, Repr(ElasticsearchBulkIndexingException(
                                 BulkErrorResponse(applied))))
  /\ submitted' = CountSubmitted(submitted, command_buffer[w])
  /\ w_log' = [w_log EXCEPT ![w] = Append(@, "bulk")]
  /\ UNCHANGED <<cfgVars, refresh_interval, document_queue, result_queue, stats_queue,
                 bufferVars, w_command_count, w_versions, w_stats, created, updated,
                 coordVars, collectorVars, runVars, reportVars, flushVars, notifyVars,
                 statusVars, signalVars, received, w_deleted, existing, run_created,
                 run_updated>>

\* a cluster call (the search of collect_stats, the delete_by_query, the bulk
\* request) raises a transport error and has no effect
WorkerTransportError(w) ==
  /\ \/ wpc[w] = "send" /\ Searches
     \/ wpc[w] \in {"delete", "bulk"}
  /\ WorkerRaise(w, Repr(TransportError))
  /\ UNCHANGED <<cfgVars, clusterVars, document_queue, result_queue, stats_queue,
                 bufferVars, w_command_count, w_versions, w_stats, created, updated,
                 coordVars, collectorVars, runVars, reportVars, flushVars, notifyVars,
                 statusVars, signalVars, w_response, received, submitted, w_log,
                 w_deleted, existing, run_created, run_updated>>

\* run, except KeyboardInterrupt: the process just stops, wherever in the
\* try block it is
WorkerInterrupt(w) ==
  /\ wpc[w] \in {"get", "send", "delete", "bulk", "stats_put", "result"}
  /\ wpc' = [wpc EXCEPT ![w] = "interrupted"]
  /\ UNCHANGED <<cfgVars, clusterVars, queueVars, bufferVars, w_command_count,
                 w_versions, w_stats, created, updated, coordVars, collectorVars,
                 runVars, reportVars, flushVars, notifyVars, statusVars, signalVars,
                 postVars, historyVars>>

\* a worker's steps while the cluster answers every call
WorkerOK(w) ==
  \/ WorkerGet(w)
  \/ WorkerSend(w)
  \/ WorkerDelete(w)
  \/ WorkerBulk(w)
  \/ WorkerStatsPut(w)
  \/ WorkerResult(w)

Worker(w) ==
  \/ WorkerOK(w)
  \/ WorkerBulkErrors(w)
  \/ WorkerTransportError(w)

\* ----------------------------------------------------------- Indexer.index
\* check_errors, its first lines: the first error is taken off the error
\* queue if there is one; `otherwise` is where index goes on without one
CheckErrors(otherwise) ==
  IF error_queue = <<>>
  THEN /\ cpc' = otherwise
       /\ UNCHANGED <<error_queue, error_string>>
  ELSE /\ error_string' = Some(Head(error_queue))
       /\ error_queue' = Tail(error_queue)
       /\ cpc' = "ce_empty"

\* index, up to the feeder loop: the clean flag of the index, the stats queue
\* and its thread, the queues and the started pool, the refresh interval
Start ==
  /\ cpc = "start"
  /\ clean' = IsClean(es_index)
  /\ spc' = IF signal_stats THEN "run" ELSE "idle"
  /\ last_tuple' = None /\ signals' = <<>>
  /\ document_queue' = <<>> /\ result_queue' = <<>>
  /\ error_queue' = <<>> /\ stats_queue' = <<>>
  /\ wpc' = [w \in Procs |-> IF w < pool_size THEN "get" ELSE "idle"]
  /\ command_buffer' = [w \in Procs |-> <<>>]
  /\ id_buffer' = [w \in Procs |-> EmptyDict]
  /\ w_command_count' = [w \in Procs |-> 0]
  /\ w_versions' = [w \in Procs |-> {}]
  /\ w_stats' = [w \in Procs |-> NoStats]
  /\ created' = [w \in Procs |-> <<>>]
  /\ updated' = [w \in Procs |-> <<>>]
  /\ residual' = [w \in Procs |-> FALSE]
  /\ process_pool' = 0..(pool_size - 1)
  /\ refresh_interval' = IF IsClean(es_index) THEN "-1" ELSE "30s"
  /\ doc_index' = 0 /\ sentinels_put' = 0
  /\ document_count' = 0 /\ command_count' = 0
  /\ seen_versions' = {} /\ op_stats' = NoStats
  /\ error_string' = None /\ exc' = None
  /\ cpc' = "feed"
  /\ received' = [i \in 1..Len(feeder) |-> {}]
  /\ submitted' = [a \in AllIds |-> 0]
  /\ w_log' = [w \in Procs |-> <<>>]
  /\ w_deleted' = [w \in Procs |-> FALSE]
  /\ existing' = [w \in Procs |-> {}]
  /\ run_created' = {} /\ run_updated' = {}
  /\ pair' = 1 /\ status_writes' = 0
  /\ index_signals' = 0 /\ finish_signals' = 0
  /\ posts' = [w \in Procs |-> <<>>]
  /\ w_response' = [w \in Procs |-> None]
  /\ report' = None /\ emitted' = {}
  /\ flushes' = [w \in Procs |-> 0]
  /\ last_doc' = [w \in Procs |-> 0]
  /\ bulk_ok' = {} /\ pushed' = 0 /\ dispatched' = 0
  /\ UNCHANGED <<cfgVars, es_index, status_index, runVars, cluster_failed>>

\* the feeder loop: index_signal is sent for the document that has just been
\* put, then the next document, check_errors before it is put; after the last
\* document the sentinels
Feed ==
  /\ cpc = "feed"
  /\ index_signals' = document_count
  /\ IF doc_index < Len(feeder)
     THEN CheckErrors("put")
     ELSE /\ cpc' = "sentinels"
          /\ UNCHANGED <<error_queue, error_string>>
  /\ UNCHANGED <<cfgVars, clusterVars, document_queue, result_queue, stats_queue,
                 workerVars, doc_index, sentinels_put, process_pool, document_count,
                 command_count, seen_versions, op_stats, clean, exc, collectorVars,
                 runVars, reportVars, flushVars, notifyVars, statusVars, finish_signals,
                 postVars, historyVars>>

\* a blocking put of the document on the document queue
Put ==
  /\ cpc = "put"
  /\ Len(document_queue) < queue_size
  /\ document_queue' = Append(document_queue, Some(doc_index + 1))
  /\ doc_index' = doc_index + 1
  /\ document_count' = document_count + 1
  /\ cpc' = "feed"
  /\ UNCHANGED <<cfgVars, clusterVars, result_queue, error_queue, stats_queue,
                 workerVars, sentinels_put, process_pool, command_count, seen_versions,
                 op_stats, clean, error_string, exc, collectorVars, runVars, reportVars,
                 flushVars, notifyVars, statusVars, signalVars, postVars, historyVars>>

MoreSentinelsOneShort(n) == n < pool_size - 1

\* for i in range(self.pool_size): whether the loop goes on after n sentinels
MoreSentinels(n) == n < pool_size

\* for i in range(self.pool_size): document_queue.put(None), in index after
\* the feeder loop (then the results are awaited) and in check_errors (then
\* IndexingException is raised)
PutSentinel ==
  /\ cpc \in {"sentinels", "ce_sentinels"}
  /\ Len(document_queue) < queue_size
  /\ document_queue' = Append(document_queue, None)
  /\ IF MoreSentinels(sentinels_put + 1)
     THEN /\ sentinels_put' = sentinels_put + 1
          /\ UNCHANGED <<cpc, exc>>
     ELSE /\ sentinels_put' = 0
          /\ cpc' = IF cpc = "sentinels" THEN "results" ELSE "restore"
          /\ exc' = IF cpc = "sentinels" THEN exc ELSE error_string
  /\ UNCHANGED <<cfgVars, clusterVars, result_queue, error_queue, stats_queue,
                 workerVars, doc_index, process_pool, document_count, command_count,
                 seen_versions, op_stats, clean, error_string, collectorVars, runVars,
                 reportVars, flushVars, notifyVars, statusVars, signalVars, postVars,
                 historyVars>>

\* check_errors: while not document_queue.empty()
CeEmpty ==
  /\ cpc = "ce_empty"
  /\ cpc' = IF document_queue = <<>> THEN "ce_sentinels" ELSE "ce_get"
  /\ UNCHANGED <<cfgVars, clusterVars, queueVars, workerVars, doc_index, sentinels_put,
                 process_pool, document_count, command_count, seen_versions, op_stats,
                 clean, error_string, exc, collectorVars, runVars, reportVars,
                 flushVars, notifyVars, statusVars, signalVars, postVars, historyVars>>

\* check_errors: document_queue.get(), a blocking read
CeGet ==
  /\ cpc = "ce_get"
  /\ document_queue # <<>>
  /\ document_queue' = Tail(document_queue)
  /\ cpc' = "ce_empty"
  /\ UNCHANGED <<cfgVars, clusterVars, result_queue, error_queue, stats_queue,
                 workerVars, doc_index, sentinels_put, process_pool, document_count,
                 command_count, seen_versions, op_stats, clean, error_string, exc,
                 collectorVars, runVars, reportVars, flushVars, notifyVars, statusVars,
                 signalVars, postVars, historyVars>>

seen_versions_replace(seen, versions) == versions

\* seen_versions.update(versions)
seen_versions_update(seen, versions) == seen \cup versions

\* the counters of a result added to op_stats
AddStats(total, stats) == [k \in DOMAIN total |-> total[k] + stats[k]]

ResultsDoneAnyEnded ==
  /\ cpc = "results"
  /\ process_pool # 0..(pool_size - 1)
  /\ cpc' = "restore"
  /\ UNCHANGED <<cfgVars, clusterVars, queueVars, workerVars, doc_index, sentinels_put,
                 process_pool, document_count, command_count, seen_versions, op_stats,
                 clean, error_string, exc, collectorVars, runVars, reportVars,
                 flushVars, notifyVars, statusVars, signalVars, postVars, historyVars>>

\* while any(process_pool): the loop ends when every process has posted
\* its result
ResultsDone ==
  /\ cpc = "results"
  /\ process_pool = {}
  /\ cpc' = "restore"
  /\ UNCHANGED <<cfgVars, clusterVars, queueVars, workerVars, doc_index, sentinels_put,
                 process_pool, document_count, command_count, seen_versions, op_stats,
                 clean, error_string, exc, collectorVars, runVars, reportVars,
                 flushVars, notifyVars, statusVars, signalVars, postVars, historyVars>>

\* while any(process_pool): check_errors finds an error
ResultsError ==
  /\ cpc = "results"
  /\ process_pool # {}
  /\ error_queue # <<>>
  /\ CheckErrors("results")
  /\ UNCHANGED <<cfgVars, clusterVars, document_queue, result_queue, stats_queue,
                 workerVars, doc_index, sentinels_put, process_pool, document_count,
                 command_count, seen_versions, op_stats, clean, exc, collectorVars,
                 runVars, reportVars, flushVars, notifyVars, statusVars, signalVars,
                 postVars, historyVars>>

\* while any(process_pool): check_errors finds no error, and
\* result_queue.get(timeout=3) returns a result, which is folded into the
\* totals and marks its process complete. A get that times out (Empty) loops
\* round and changes nothing.
ResultGet ==
  /\ cpc = "results"
  /\ process_pool # {}
  /\ error_queue = <<>>
  /\ result_queue # <<>>
  /\ LET result == Head(result_queue)
     IN /\ process_pool' = process_pool \ {result.process_id}
        /\ command_count' = command_count + result.command_count
        /\ seen_versions' = seen_versions_update(seen_versions, result.versions)
        /\ op_stats' = AddStats(op_stats, result.stats)
  /\ result_queue' = Tail(result_queue)
  /\ UNCHANGED <<cfgVars, clusterVars, document_queue, error_queue, stats_queue,
                 workerVars, cpc, doc_index, sentinels_put, document_count, clean,
                 error_string, exc, collectorVars, runVars, reportVars, flushVars,
                 notifyVars, statusVars, signalVars, postVars, historyVars>>

RestoreNothing ==
  /\ cpc = "restore"
  /\ cpc' = IF exc = None /\ pair < pair_total THEN "next_pair"
            ELSE IF signal_stats THEN "stats_sentinel" ELSE "finish"
  /\ UNCHANGED <<cfgVars, clusterVars, status_index, queueVars, workerVars, doc_index,
                 sentinels_put, process_pool, document_count, command_count,
                 seen_versions, op_stats, clean, error_string, exc, collectorVars,
                 runVars, reportVars, flushVars, notifyVars, pair, status_writes,
                 signalVars, postVars, historyVars>>

\* finally: set the refresh interval back to the default
\* then the next pair if nothing was raised and there is one, else the outer
\* finally
Restore ==
  /\ cpc = "restore"
  /\ refresh_interval' = "default"
  /\ cpc' = IF exc = None /\ pair < pair_total THEN "next_pair"
            ELSE IF signal_stats THEN "stats_sentinel" ELSE "finish"
  /\ UNCHANGED <<cfgVars, es_index, status_index, queueVars, workerVars, doc_index,
                 sentinels_put, process_pool, document_count, command_count,
                 seen_versions, op_stats, clean, error_string, exc, collectorVars,
                 runVars, reportVars, flushVars, notifyVars, pair, status_writes,
                 signalVars, postVars, historyVars>>

NextPairRecount ==
  /\ cpc = "next_pair"
  /\ pair' = pair + 1
  /\ document_queue' = <<>> /\ result_queue' = <<>> /\ error_queue' = <<>>
  /\ wpc' = [w \in Procs |-> IF w < pool_size THEN "get" ELSE "idle"]
  /\ command_buffer' = [w \in Procs |-> <<>>]
  /\ id_buffer' = [w \in Procs |-> EmptyDict]
  /\ w_command_count' = [w \in Procs |-> 0]
  /\ w_versions' = [w \in Procs |-> {}]
  /\ w_stats' = [w \in Procs |-> NoStats]
  /\ created' = [w \in Procs |-> <<>>]
  /\ updated' = [w \in Procs |-> <<>>]
  /\ residual' = [w \in Procs |-> FALSE]
  /\ process_pool' = 0..(pool_size - 1)
  /\ clean' = IsClean(es_index)
  /\ refresh_interval' = IF IsClean(es_index) THEN "-1" ELSE "30s"
  /\ doc_index' = 0 /\ sentinels_put' = 0
  /\ cpc' = "feed"
  /\ received' = [i \in 1..Len(feeder) |-> {}]
  /\ submitted' = [a \in AllIds |-> 0]
  /\ w_log' = [w \in Procs |-> <<>>]
  /\ w_deleted' = [w \in Procs |-> FALSE]
  /\ existing' = [w \in Procs |-> {}]
  /\ posts' = [w \in Procs |-> <<>>]
  /\ w_response' = [w \in Procs |-> None]
  /\ flushes' = [w \in Procs |-> 0]
  /\ last_doc' = [w \in Procs |-> 0]
  /\ UNCHANGED <<cfgVars, es_index, status_index, stats_queue, document_count,
                 command_count, seen_versions, op_stats, error_string, exc,
                 collectorVars, runVars, reportVars, notifyVars, status_writes,
                 signalVars, run_created, run_updated, cluster_failed>>

\* for feeder, index in self.feeders_and_indexes: the queues, the pool and
\* the refresh interval of the next pair; the clean flags, the counters and
\* the stats thread are those of the run
NextPair ==
  /\ cpc = "next_pair"
  /\ pair' = pair + 1
  /\ document_queue' = <<>> /\ result_queue' = <<>> /\ error_queue' = <<>>
  /\ wpc' = [w \in Procs |-> IF w < pool_size THEN "get" ELSE "idle"]
  /\ command_buffer' = [w \in Procs |-> <<>>]
  /\ id_buffer' = [w \in Procs |-> EmptyDict]
  /\ w_command_count' = [w \in Procs |-> 0]
  /\ w_versions' = [w \in Procs |-> {}]
  /\ w_stats' = [w \in Procs |-> NoStats]
  /\ created' = [w \in Procs |-> <<>>]
  /\ updated' = [w \in Procs |-> <<>>]
  /\ residual' = [w \in Procs |-> FALSE]
  /\ process_pool' = 0..(pool_size - 1)
  /\ refresh_interval' = IF clean THEN "-1" ELSE "30s"
  /\ doc_index' = 0 /\ sentinels_put' = 0
  /\ cpc' = "feed"
  /\ received' = [i \in 1..Len(feeder) |-> {}]
  /\ submitted' = [a \in AllIds |-> 0]
  /\ w_log' = [w \in Procs |-> <<>>]
  /\ w_deleted' = [w \in Procs |-> FALSE]
  /\ existing' = [w \in Procs |-> {}]
  /\ posts' = [w \in Procs |-> <<>>]
  /\ w_response' = [w \in Procs |-> None]
  /\ flushes' = [w \in Procs |-> 0]
  /\ last_doc' = [w \in Procs |-> 0]
  /\ UNCHANGED <<cfgVars, es_index, status_index, stats_queue, document_count,
                 command_count, seen_versions, op_stats, clean, error_string, exc,
                 collectorVars, runVars, reportVars, notifyVars, status_writes,
                 signalVars, run_created, run_updated, cluster_failed>>

\* finally: put a sentinel on the stats queue (a blocking put)
StatsSentinel ==
  /\ cpc = "stats_sentinel"
  /\ Len(stats_queue) < StatsQueueMaxSize
  /\ stats_queue' = Append(stats_queue, None)
  /\ cpc' = "join"
  /\ UNCHANGED <<cfgVars, clusterVars, document_queue, result_queue, error_queue,
                 workerVars, doc_index, sentinels_put, process_pool, document_count,
                 command_count, seen_versions, op_stats, clean, error_string, exc,
                 collectorVars, runVars, reportVars, flushVars, notifyVars, statusVars,
                 signalVars, postVars, historyVars>>

JoinNoWait ==
  /\ cpc = "join"
  /\ cpc' = "finish"
  /\ UNCHANGED <<cfgVars, clusterVars, queueVars, workerVars, doc_index, sentinels_put,
                 process_pool, document_count, command_count, seen_versions, op_stats,
                 clean, error_string, exc, collectorVars, runVars, reportVars,
                 flushVars, notifyVars, statusVars, signalVars, postVars, historyVars>>

\* stats_thread.join()
Join ==
  /\ cpc = "join"
  /\ spc = "done"
  /\ cpc' = "finish"
  /\ UNCHANGED <<cfgVars, clusterVars, queueVars, workerVars, doc_index, sentinels_put,
                 process_pool, document_count, command_count, seen_versions, op_stats,
                 clean, error_string, exc, collectorVars, runVars, reportVars,
                 flushVars, notifyVars, statusVars, signalVars, postVars, historyVars>>

\* self.indexes: the index of every pair
Indexes == [p \in 1..pair_total |-> IndexName]

update_statusesWhateverFlag(status, flag) ==
  [n \in DOMAIN status \cup Range(Indexes) |->
     IF n \in Range(Indexes) THEN Some(Version) ELSE status[n]]

\* update_statuses: for index in set(self.indexes), the status document with
\* id index.name is indexed with latest_version = self.version
update_statuses(status, flag) ==
  IF flag
  THEN [n \in DOMAIN status \cup Range(Indexes) |->
          IF n \in Range(Indexes) THEN Some(Version) ELSE status[n]]
  ELSE status

\* the number of status documents update_statuses indexes
StatusWrites(flag) == IF flag THEN Cardinality(Range(Indexes)) ELSE 0

FinishUpdatesAnyway ==
  /\ cpc = "finish"
  /\ status_index' = update_statuses(status_index, update_status)
  /\ status_writes' = status_writes + StatusWrites(update_status)
  /\ cpc' = IF exc # None THEN "raised" ELSE "finish_signal"
  /\ UNCHANGED <<cfgVars, es_index, refresh_interval, queueVars, workerVars, doc_index,
                 sentinels_put, process_pool, document_count, command_count,
                 seen_versions, op_stats, clean, error_string, exc, collectorVars,
                 runVars, reportVars, flushVars, notifyVars, pair, signalVars, postVars,
                 historyVars>>

\* the end of index: the exception leaves it, or the statuses are updated
Finish ==
  /\ cpc = "finish"
  /\ IF exc # None
     THEN /\ cpc' = "raised"
          /\ UNCHANGED <<status_index, status_writes>>
     ELSE /\ status_index' = update_statuses(status_index, update_status)
          /\ status_writes' = status_writes + StatusWrites(update_status)
          /\ cpc' = "finish_signal"
  /\ UNCHANGED <<cfgVars, es_index, refresh_interval, queueVars, workerVars, doc_index,
                 sentinels_put, process_pool, document_count, command_count,
                 seen_versions, op_stats, clean, error_string, exc, collectorVars,
                 runVars, reportVars, flushVars, notifyVars, pair, signalVars, postVars,
                 historyVars>>

\* self.feeders: the collection name of the feeder of every pair
FeederCollections == [p \in 1..pair_total |-> mongo_collection[p]]

\* get_stats: the report of the run (start, end and duration left out)
get_stats(operations, seen) ==
  [version |-> Version,
   versions |-> SetToSeq(seen),
   sources |-> SortedSet(FeederCollections, CollectionNames),
   targets |-> SortedSet(Indexes, <<IndexName>>),
   operations |-> operations]

\* the report is made, the finish signal is sent and the report is returned
FinishSignal ==
  /\ cpc = "finish_signal"
  /\ report' = Some(get_stats(op_stats, seen_versions))
  /\ finish_signals' = finish_signals + 1
  /\ cpc' = "returned"
  /\ UNCHANGED <<cfgVars, clusterVars, queueVars, workerVars, doc_index, sentinels_put,
                 process_pool, document_count, command_count, seen_versions, op_stats,
                 clean, error_string, exc, collectorVars, runVars, emitted, flushVars,
                 notifyVars, statusVars, index_signals, postVars, historyVars>>

\* the cursor of the feeder raises when the next document is asked for: the
\* exception leaves the feeder loop for the finally blocks
FeederRaises ==
  /\ cpc = "feed"
  /\ doc_index < Len(feeder)
  /\ index_signals' = document_count
  /\ exc' = Some(FeederError)
  /\ cpc' = "restore"
  /\ UNCHANGED <<cfgVars, clusterVars, queueVars, workerVars, doc_index, sentinels_put,
                 process_pool, document_count, command_count, seen_versions, op_stats,
                 clean, error_string, collectorVars, runVars, reportVars, flushVars,
                 notifyVars, statusVars, finish_signals, postVars, historyVars>>

\* where the coordinator is while a pair is being processed
InPair == {"feed", "put", "sentinels", "results", "ce_empty", "ce_get", "ce_sentinels"}

\* KeyboardInterrupt in the main process while a pair is being processed:
\* index has no handler for it, it leaves the inner try for the finally blocks
Interrupt ==
  /\ cpc \in InPair
  /\ exc' = Some(KeyboardInterrupt)
  /\ cpc' = "restore"
  /\ UNCHANGED <<cfgVars, clusterVars, queueVars, workerVars, doc_index, sentinels_put,
                 process_pool, document_count, command_count, seen_versions, op_stats,
                 clean, error_string, collectorVars, runVars, reportVars, flushVars,
                 notifyVars, statusVars, signalVars, postVars, historyVars>>

\* index() is run again, with the same version and feeder output, on the
\* index the run before left
Rerun ==
  /\ cpc = "returned"
  /\ run < MaxRuns
  /\ run' = run + 1
  /\ first_run_index' = IF run = 1 THEN es_index ELSE first_run_index
  /\ cpc' = "start"
  /\ UNCHANGED <<cfgVars, clusterVars, queueVars, workerVars, doc_index, sentinels_put,
                 process_pool, document_count, command_count, seen_versions, op_stats,
                 clean, error_string, exc, collectorVars, historyVars, statusVars,
                 signalVars, postVars, reportVars, flushVars, notifyVars>>

\* the coordinator's steps while no error is on the error queue
CoordinatorOK ==
  \/ Start \/ Feed \/ Put \/ PutSentinel \/ ResultsDone \/ ResultGet
  \/ Restore \/ StatsSentinel \/ Join \/ Finish \/ FinishSignal

Coordinator ==
  \/ CoordinatorOK \/ CeEmpty \/ CeGet \/ ResultsError

\* ------------------------------------------------- Indexer.stats_collector
\* the signals sent for one tuple of the stats queue: created_signal for the
\* created ids, then updated_signal for the updated ids
Dispatch(tuple) ==
  [i \in 1..Len(tuple.created) |->
     [signal |-> "created", index |-> tuple.index, record_id |-> tuple.created[i],
      record |-> tuple.ids[tuple.created[i]]]]
  \o
  [i \in 1..Len(tuple.updated) |->
     [signal |-> "updated", index |-> tuple.index, record_id |-> tuple.updated[i],
      record |-> tuple.ids[tuple.updated[i]]]]

\* a blocking read of the stats queue, until the sentinel
StatsCollector ==
  /\ spc = "run"
  /\ stats_queue # <<>>
  /\ stats_queue' = Tail(stats_queue)
  /\ IF Head(stats_queue) = None
     THEN /\ spc' = "done"
          /\ UNCHANGED <<last_tuple, signals, dispatched>>
     ELSE /\ last_tuple' = Head(stats_queue)
          /\ signals' = Dispatch(Head(stats_queue)[1])
          /\ dispatched' = dispatched + 1
          /\ UNCHANGED spc
  /\ UNCHANGED <<cfgVars, clusterVars, document_queue, result_queue, error_queue,
                 workerVars, coordVars, runVars, reportVars, flushVars, bulk_ok, pushed,
                 statusVars, signalVars, postVars, historyVars>>

\* ------------------------------------------------------------ specification
Next ==
  \/ Coordinator
  \/ \E w \in Procs : Worker(w)
  \/ StatsCollector

Spec == Init /\ [][Next]_vars

\* The cluster never fails: no call of a worker raises.
NextOK ==
  \/ CoordinatorOK
  \/ \E w \in Procs : WorkerOK(w)
  \/ StatsCollector

\* index() run on an empty index and then again on the index it produced
InitRerun == Init /\ es_index = {}

RerunSpec == InitRerun /\ [][NextOK \/ Rerun]_vars

\* The coordinator, every started worker process and the stats thread are
\* scheduled: a step that stays possible is taken.
Fairness ==
  /\ WF_vars(CoordinatorOK)
  /\ \A w \in Procs : WF_vars(WorkerOK(w))
  /\ WF_vars(StatsCollector)

\* For termination the record ids do not matter: the feeders that emit the
\* ids 1, 2, ... in this order.
InitLive == Init /\ \A i \in 1..Len(feeder) : feeder[i].id = i

LiveSpec == InitLive /\ [][NextOK]_vars /\ Fairness

\* The feeders that emit the record ids 1, 2, ... in this order
OrderedFeeders == {f \in Feeders : \A i \in 1..Len(f) : f[i].id = i}

\* The feeders of at most one document
ShortFeeders == {f \in OrderedFeeders : Len(f) <= 1}

\* Several (feeder, index) pairs and update_status: update_status is set or
\* not, there is one pair or there are several pairs of the feeder and the
\* index, and the cluster may fail
InitPairs ==
  /\ update_status \in BOOLEAN
  /\ pair_total \in 1..MaxPairs
  /\ mongo_collection = OneCollection
  /\ Constructed(ShortFeeders)

NextPairs ==
  \/ Next
  \/ NextPair

PairsSpec == InitPairs /\ [][NextPairs]_vars

\* Interrupts and a failing feeder: the cluster may fail, the feeder's cursor
\* may raise, the main process or a worker process may be interrupted
InitInterrupt ==
  /\ update_status = TRUE
  /\ pair_total = 1
  /\ mongo_collection = OneCollection
  /\ Constructed(ShortFeeders)

NextInterrupt ==
  \/ Next
  \/ FeederRaises
  \/ Interrupt
  \/ \E w \in Procs : WorkerInterrupt(w)

InterruptSpec == InitInterrupt /\ [][NextInterrupt]_vars

\* A cluster that may fail, with the scheduling of LiveSpec: the coordinator
\* is scheduled in check_errors too, and a cluster call may fail or go through
FairnessOnError ==
  /\ WF_vars(Coordinator)
  /\ \A w \in Procs : WF_vars(WorkerOK(w))
  /\ WF_vars(StatsCollector)

\* The long feeders: up to MaxLongDocs documents of one revision each, with
\* the record ids 1, 2, ... in this order
LongFeeders ==
  {[i \in 1..n |-> [id |-> i, versions |-> <<1>>]] : n \in 0..MaxLongDocs}

InitShutdown ==
  /\ update_status = TRUE
  /\ pair_total = 1
  /\ mongo_collection = OneCollection
  /\ Constructed(LongFeeders)

ShutdownSpec == InitShutdown /\ [][Next]_vars /\ FairnessOnError

\* The report of a run of one or several pairs: the feeders of the pairs read
\* any collections, and the cluster never fails
InitReport ==
  /\ update_status = TRUE
  /\ pair_total \in 1..MaxPairs
  /\ mongo_collection \in [1..MaxPairs -> Range(CollectionNames)]
  /\ \A p \in 1..MaxPairs : p > pair_total => mongo_collection[p] = CollectionNames[1]
  /\ Constructed(OrderedFeeders)

NextReport ==
  \/ NextOK
  \/ NextPair

ReportSpec == InitReport /\ [][NextReport]_vars

\* Interrupted worker processes: a worker may be interrupted while the main
\* process is not, there is one pair or there are several, and the cluster
\* may fail
InitWorkerInterrupt ==
  /\ update_status = TRUE
  /\ pair_total \in 1..MaxPairs
  /\ mongo_collection = OneCollection
  /\ Constructed(ShortFeeders)

NextWorkerInterrupt ==
  \/ Next
  \/ NextPair
  \/ \E w \in Procs : WorkerInterrupt(w)

WorkerInterruptSpec == InitWorkerInterrupt /\ [][NextWorkerInterrupt]_vars

\* The command generator on every source document: one document with any
\* ascending version list, the stamps before the epoch and 0 included
CommandFeeders ==
  {<<[id |-> r, versions |-> v]>> : r \in 1..MaxId, v \in AscendingLists}

InitCommands ==
  /\ update_status = TRUE
  /\ pair_total = 1
  /\ mongo_collection = OneCollection
  /\ Constructed(CommandFeeders)

CommandsSpec == InitCommands /\ [][NextOK]_vars

\* ------------------------------------------------------------------ claims
\* C1: once a worker has put an error on the error queue, index() goes on to
\* raise IndexingException with the first error string of the error queue,
\* and the coordinator is never blocked for good: as long as index() has not
\* raised, some step of the coordinator, of a worker or of the stats thread
\* is still possible, and when it has raised, the exception carries an error
\* string that a worker put.
C1_ErrorRaisesIndexingException ==
  cluster_failed =>
    /\ cpc # "returned"
    /\ cpc = "raised" => exc \in {Some(BulkErrorRepr), Some(TransportErrorRepr)}
    /\ cpc # "raised" => ENABLED Next

\* the commands of the feeder documents that process w took off the queue
CommandsReceived(w) ==
  LET n == [i \in 1..Len(feeder) |->
              IF w \in received[i] THEN Len(get_commands(feeder[i])) ELSE 0]
  IN SumOver(n, 1..Len(feeder))

\* index() has returned its report
Returned == cpc = "returned"

\* every process of the pool has read its sentinel, flushed what it had
\* buffered, posted its result and ended; nothing is left on a queue and the
\* stats thread has read its sentinel
AllEnded ==
  /\ \A w \in Procs :
       IF w < pool_size
       THEN /\ wpc[w] = "done"
            /\ residual[w]
            /\ w_command_count[w] = CommandsReceived(w)
       ELSE wpc[w] = "idle"
  /\ process_pool = {}
  /\ document_queue = <<>> /\ result_queue = <<>> /\ stats_queue = <<>>
  /\ spc = IF signal_stats THEN "done" ELSE "idle"

\* the feeder emits each record id at most once
UniqueIds == \A i, j \in 1..Len(feeder) : feeder[i].id = feeder[j].id => i = j

\* the _ids of the documents the index holds of a record
RevisionsOf(index, record_id) == {d._id : d \in {e \in index : e._id[1] = record_id}}

\* the _ids of the commands of a source document
CommandIds(mongo_doc) ==
  {get_commands(mongo_doc)[k][1]._id : k \in 1..Len(get_commands(mongo_doc))}

\* C2: with a finite feeder (the empty one included) and a cluster that never
\* fails, index() returns its report, and when it has, every process of the
\* pool has read one sentinel, flushed its buffer, posted its result and
\* ended, and the stats thread has read its sentinel.
C2_IndexTerminates == <>Returned /\ [](Returned => AllEnded)

C2_Witness ==
  /\ Returned
  /\ pool_size = 2
  /\ signal_stats
  /\ \A w \in 0..1 : w_command_count[w] > 0

\* C3: a worker that is not on a clean insert is at its bulk request only
\* when the delete_by_query of the same flush has completed, and the bulk
\* request is the call after it; a worker on a clean insert never calls
\* delete_by_query.
C3_DeleteBeforeBulk ==
  \A w \in Procs :
    IF clean
    THEN ~w_deleted[w] /\ "delete" \notin Range(w_log[w])
    ELSE /\ wpc[w] = "bulk" => w_log[w] = <<"delete">>
         /\ wpc[w] = "stats_put" => w_log[w] = <<"delete", "bulk">>

C3_Witness ==
  /\ ~clean
  /\ wpc[0] = "bulk"
  /\ w_log[0] = <<"delete">>
  /\ Matching(PriorDocs, DOMAIN id_buffer[0]) # {}
  /\ Matching(es_index, DOMAIN id_buffer[0]) = {}

\* C4: after a successful run on a non-empty index, with a feeder that emits
\* each record id at most once, the index holds of every record that was
\* emitted with a command exactly the documents "<id>:<v>" of the source
\* document's versions.
C4_OnlyCurrentRevisions ==
  (Returned /\ ~clean /\ UniqueIds) =>
    \A i \in 1..Len(feeder) :
      get_commands(feeder[i]) # <<>> =>
        RevisionsOf(es_index, feeder[i].id) = CommandIds(feeder[i])

C4_Witness ==
  /\ Returned /\ ~clean /\ UniqueIds
  /\ pool_size = 2
  /\ Len(feeder) = 2
  /\ \A i \in 1..2 : feeder[i].versions = <<1>>
  /\ \A w \in 0..1 : w_deleted[w]
  /\ RevisionsOf(es_index, 1) = {<<1, 1>>}

\* C5 as stated: index() run on an empty index and run again with the same
\* version and feeder output leaves the index with the documents (ids and
\* payloads) it held after the first run, whatever the feeder emits.
C5_RerunSameIndexAnyFeeder == (Returned /\ run = 2) => es_index = first_run_index

\* C5, amended: the same, for a feeder that emits each record id at most once.
C5_RerunSameIndex == (Returned /\ run = 2 /\ UniqueIds) => es_index = first_run_index

C5_Witness ==
  /\ Returned /\ run = 2 /\ UniqueIds
  /\ pool_size = 2
  /\ \A w \in 0..1 : w_deleted[w]
  /\ Cardinality(es_index) = 3
  /\ es_index = first_run_index

\* how many commands of the feeder's documents have the _id a
Expected(a) ==
  LET n == [i \in 1..Len(feeder) |-> IF a \in CommandIds(feeder[i]) THEN 1 ELSE 0]
  IN SumOver(n, 1..Len(feeder))

\* the number of commands of all the feeder's documents
TotalCommands ==
  LET n == [i \in 1..Len(feeder) |-> Len(get_commands(feeder[i]))]
  IN SumOver(n, 1..Len(feeder))

\* every document was taken by one process, every command was sent in one
\* bulk request, and the run's command_count is the number of commands
SubmittedOnce ==
  /\ \A i \in 1..Len(feeder) : Cardinality(received[i]) = 1
  /\ \A a \in AllIds : submitted[a] = Expected(a)
  /\ command_count = TotalCommands

\* the index holds a document for every revision of every feeder document
AllRevisionsPresent ==
  \A i \in 1..Len(feeder) : CommandIds(feeder[i]) \subseteq {d._id : d \in es_index}

\* C6 as stated: in a successful run every command of every enqueued
\* document is sent in exactly one bulk request by exactly one worker, the
\* aggregated command_count is the number of commands, and every revision is
\* in the index, whatever the feeder emits.
C6_SubmittedOnceAllPresent == Returned => (SubmittedOnce /\ AllRevisionsPresent)

\* C6, amended: the same, every revision being in the index when the index
\* was empty before the run or the feeder emits each record id at most once.
C6_SubmittedOnce ==
  Returned => (SubmittedOnce /\ ((clean \/ UniqueIds) => AllRevisionsPresent))

C6_Witness ==
  /\ Returned /\ UniqueIds /\ ~clean
  /\ pool_size = 2 /\ elasticsearch_bulk_size = 2
  /\ Len(feeder) = 2
  /\ \A i \in 1..2 : Len(feeder[i].versions) = 2
  /\ \A w \in 0..1 : w_command_count[w] = 2
  /\ command_count = 4

\* C7: in every result a worker posts, and in the totals the coordinator
\* builds from the results, the operation counters of the index add up to
\* the command count.
C7_StatsSumIsCommandCount ==
  /\ \A i \in 1..Len(result_queue) :
       result_queue[i].stats.created + result_queue[i].stats.updated
         = result_queue[i].command_count
  /\ op_stats.created + op_stats.updated = command_count

C7_Witness ==
  /\ Returned
  /\ pool_size = 2
  /\ op_stats.created > 0 /\ op_stats.updated > 0
  /\ op_stats.created + op_stats.updated = TotalCommands

\* the record ids of the feeder documents that have a command
IdsSeen == {feeder[i].id : i \in {j \in 1..Len(feeder) : get_commands(feeder[j]) # <<>>}}

\* C8: with stats enabled the created and the updated ids of a flushed batch
\* are disjoint and together are the keys of the id buffer, in the worker
\* and in every tuple on the stats queue; after a successful run with a
\* feeder that emits each id at most once the created and the updated ids of
\* the run are disjoint and together are the ids that produced commands.
C8_CreatedUpdatedPartition ==
  /\ \A w \in Procs :
       (signal_stats /\ wpc[w] \in {"delete", "bulk", "stats_put"}) =>
         /\ Range(created[w]) \cap Range(updated[w]) = {}
         /\ Range(created[w]) \cup Range(updated[w]) = DOMAIN id_buffer[w]
  /\ \A i \in 1..Len(stats_queue) :
       stats_queue[i] # None =>
         /\ Range(stats_queue[i][1].created) \cap Range(stats_queue[i][1].updated) = {}
         /\ Range(stats_queue[i][1].created) \cup Range(stats_queue[i][1].updated)
              = DOMAIN stats_queue[i][1].ids
  /\ (Returned /\ signal_stats /\ UniqueIds) =>
       /\ run_created \cap run_updated = {}
       /\ run_created \cup run_updated = IdsSeen

C8_Witness ==
  /\ Returned /\ signal_stats /\ UniqueIds /\ ~clean
  /\ pool_size = 2
  /\ run_created = {} /\ run_updated = 1..2

\* C9: with stats enabled, on a clean insert every id of the batch is
\* created; otherwise the updated ids are the ids of which the index held a
\* document when the batch was classified, and the created ids are the
\* others.
C9_ClassifiedByExistence ==
  \A w \in Procs :
    (signal_stats /\ wpc[w] \in {"delete", "bulk", "stats_put"}) =>
      IF clean
      THEN Range(created[w]) = DOMAIN id_buffer[w] /\ updated[w] = <<>>
      ELSE /\ Range(updated[w]) = existing[w]
           /\ Range(created[w]) = DOMAIN id_buffer[w] \ existing[w]

\* the number of signals sent for a record id of the tuple read last
SignalsFor(record_id) ==
  Cardinality({i \in 1..Len(signals) : signals[i].record_id = record_id})

\* C10: for every tuple the stats collector reads, every record id of the
\* batch gets one signal, created or updated, with the payload the id buffer
\* holds for it, and no other signal is sent.
C10_OneSignalPerId ==
  last_tuple # None =>
    /\ \A r \in DOMAIN last_tuple[1].ids : SignalsFor(r) = 1
    /\ \A i \in 1..Len(signals) :
         /\ signals[i].record_id \in DOMAIN last_tuple[1].ids
         /\ signals[i].record = last_tuple[1].ids[signals[i].record_id]

\* the bulk request of process w failed: the process ended on an exception
\* after its flush had got past the delete step
BulkFailed(w) ==
  /\ wpc[w] = "failed"
  /\ command_buffer[w] # <<>>
  /\ clean \/ "delete" \in Range(w_log[w])

\* the commands of feeder document i were in a bulk request that succeeded:
\* a process took the document and has flushed it without an exception
BulkSucceeded(i) ==
  \E w \in received[i] :
    \/ wpc[w] \in {"stats_put", "result", "done"}
    \/ /\ wpc[w] \in {"get", "send", "delete", "bulk", "failed"}
       /\ get_commands(feeder[i]) # <<>>
       /\ \A k \in 1..Len(command_buffer[w]) :
            command_buffer[w][k][1]._id[1] # feeder[i].id

\* index() has raised and every process of the pool has ended
RunFailed ==
  /\ cpc = "raised"
  /\ \A w \in Procs : wpc[w] \in {"idle", "done", "failed", "interrupted"}

\* C11: after a failed run, with a feeder that emits each record id once,
\* every document of a batch whose bulk request succeeded is in the index,
\* and no document of a record of a batch whose bulk request failed is.
C11_FailedRunIndexState ==
  (RunFailed /\ UniqueIds) =>
    /\ \A i \in 1..Len(feeder) :
         BulkSucceeded(i) =>
           \A k \in 1..Len(get_commands(feeder[i])) :
             StoredDoc(get_commands(feeder[i])[k]) \in es_index
    /\ \A w \in Procs :
         BulkFailed(w) =>
           \A r \in DOMAIN id_buffer[w] : Matching(es_index, {r}) = {}

\* index() has ended: it has returned its report or an exception has left it
Ended == cpc \in {"returned", "raised"}

\* C12: while a pair is being processed the refresh interval of its index is
\* -1 on a clean insert and 30s otherwise, and when index() has ended, by
\* returning, on a worker's error, on an exception of the feeder or on an
\* interrupt, the refresh interval is back at the default.
C12_RefreshIntervalRestored ==
  /\ cpc \in InPair => refresh_interval = IF clean THEN "-1" ELSE "30s"
  /\ Ended => refresh_interval = "default"

C12_Witness ==
  /\ cpc = "raised"
  /\ exc = Some(FeederError)
  /\ ~clean
  /\ \E w \in Procs : wpc[w] = "get"
  /\ refresh_interval = "default"

\* the status documents are those the run found
StatusUntouched ==
  /\ status_index = [n \in {IndexName} |-> IF clean THEN None ELSE Some(PriorVersion)]
  /\ status_writes = 0

\* the exception that leaves index() is an IndexingException: its error
\* string is the repr of a worker's exception
IndexingExceptionRaised ==
  /\ exc # None
  /\ exc[1].class \in {"ElasticsearchBulkIndexingException", "TransportError"}

\* C13: when a pair of the run has failed with an IndexingException, whether
\* the first pair or a later one, no status document has been written or
\* changed by the run and the finish signal has not been sent, and this
\* stays so when index() has raised.
C13_NoStatusOnFailure ==
  IndexingExceptionRaised => (StatusUntouched /\ finish_signals = 0)

C13_Witness ==
  /\ cpc = "raised"
  /\ IndexingExceptionRaised
  /\ update_status
  /\ pair = 2
  /\ ~clean
  /\ status_index[IndexName] = Some(PriorVersion)

\* C14: no status document is written before every pair has finished; when
\* the finish signal is about to be sent or has been sent, with update_status
\* the one status document of the target index, keyed by the prefixed index
\* name, has latest_version = version and was written once however many
\* pairs share the index, and without update_status the status documents are
\* those the run found.
C14_StatusWrittenOnce ==
  /\ cpc \notin {"start", "finish_signal", "returned"} => status_writes = 0
  /\ cpc \in {"finish_signal", "returned"} =>
       /\ pair = pair_total
       /\ finish_signals = IF cpc = "returned" THEN 1 ELSE 0
       /\ IF update_status
          THEN /\ status_index = [n \in {IndexName} |-> Some(Version)]
               /\ status_writes = 1
          ELSE StatusUntouched

C14_Witness ==
  /\ Returned
  /\ update_status
  /\ pair_total = 2 /\ pair = 2
  /\ feeder # <<>>
  /\ status_index[IndexName] = Some(Version)
  /\ status_writes = 1

\* C15: index_signal has been sent for every document that is or has been
\* on the document queue: the signal of a document is sent before the
\* document is put, so that a process can only have received a document
\* whose signal has been sent.
C15_SignalBeforePut ==
  /\ index_signals >= document_count
  /\ \A i \in 1..Len(feeder) : received[i] # {} => index_signals >= i

\* the interrupt of the main process has been handled: KeyboardInterrupt has
\* left index()
InterruptHandled == cpc = "raised" /\ exc = Some(KeyboardInterrupt)

\* C16: when an interrupt of the main process has been handled, the document
\* queue has been drained, every process of the pool has ended (the pool was
\* joined, none is left waiting on the document queue) and the stats thread
\* has read its sentinel.
C16_InterruptStopsWorkers ==
  InterruptHandled =>
    /\ \A w \in Procs : w < pool_size => wpc[w] \in {"done", "failed", "interrupted"}
    /\ \A k \in 1..Len(document_queue) : document_queue[k] = None
    /\ spc = IF signal_stats THEN "done" ELSE "idle"

\* C17: a process posts at most one message: when it has ended after the
\* sentinel and its last flush, one result and no error; when an exception
\* other than an interrupt ended it, one error and no result; when it was
\* interrupted, or as long as it is running, nothing.
C17_OneMessagePerWorker ==
  \A w \in Procs :
    /\ Len(posts[w]) <= 1
    /\ posts[w] = IF wpc[w] = "done" THEN <<"result">>
                  ELSE IF wpc[w] = "failed" THEN <<"error">>
                  ELSE <<>>
    /\ wpc[w] = "done" => residual[w]

C17_Witness ==
  /\ pool_size = 2
  /\ \E w1, w2 \in Procs :
       /\ wpc[w1] = "failed" /\ posts[w1] = <<"error">>
       /\ wpc[w2] = "interrupted" /\ residual[w2]

\* the error strings the coordinator has in hand or can still take: those on
\* the error queue, the one check_errors took, the one that has left index()
ErrorStrings ==
  Range(error_queue) \cup Range(error_string)
    \cup {e \in Range(exc) : e.class \notin {"KeyboardInterrupt", "Exception"}}

\* the error string holds the bulk response
Carries(error, response) ==
  /\ "elasticsearch_response" \in DOMAIN error
  /\ error.elasticsearch_response = response

\* C18: every error string that stems from a bulk response with errors, on
\* the error queue and in the IndexingException, carries that bulk response.
C18_ErrorCarriesBulkResponse ==
  \A e \in ErrorStrings :
    e.class = "ElasticsearchBulkIndexingException" =>
      \E w \in Procs : w_response[w] # None /\ Carries(e, w_response[w][1])

\* the commands of a source document are one per version, in the order of
\* the versions, each with the _id of its record id and version, the
\* prefixed index name, the data of its revision and its version as
\* meta.version and meta.versions.gte
CommandsOfVersions(mongo_doc) ==
  LET commands == get_commands(mongo_doc)
      revisions == get_versions_and_data(mongo_doc)
  IN /\ Len(commands) = Len(mongo_doc.versions)
     /\ \A i \in 1..Len(commands) :
          /\ commands[i][1]._id = <<mongo_doc.id, mongo_doc.versions[i]>>
          /\ commands[i][1]._index = IndexPrefix \o UnprefixedName
          /\ commands[i][2].data = revisions[i][2][1]
          /\ commands[i][2].meta.version = mongo_doc.versions[i]
          /\ commands[i][2].meta.versions.gte = mongo_doc.versions[i]
     /\ \A i, j \in 1..Len(commands) :
          i < j => commands[i][2].meta.version < commands[j][2].meta.version
     /\ \A i \in 1..Len(commands) :
          commands[Len(commands)][2].meta.version >= commands[i][2].meta.version

\* C19: for every source document, get_commands yields one command per
\* version in ascending version order, with _id "<record_id>:<version>", the
\* prefixed index name, the revision's data and meta.version =
\* meta.versions.gte = version, the last command being the newest revision;
\* and these are the commands a process buffers for the document.
C19_CommandsPerVersion ==
  /\ \A i \in 1..Len(feeder) : received[i] # {} => CommandsOfVersions(feeder[i])
  /\ \A w \in Procs :
       (wpc[w] = "send" /\ ~residual[w] /\ Len(feeder) = 1) =>
         command_buffer[w] = get_commands(feeder[1])

C19_Witness ==
  \E w \in Procs :
    /\ wpc[w] = "send"
    /\ Len(feeder[1].versions) = 3
    /\ feeder[1].versions[1] = MinVersion
    /\ command_buffer[w] = get_commands(feeder[1])

\* C20: in the commands of every source document a process has taken, a
\* revision that is not the last has meta.next_version and meta.versions.lt,
\* both the version of the revision that follows it and greater than its own
\* version, and the last revision has neither.
C20_NextVersionOfRevisions ==
  \A i \in 1..Len(feeder) :
    received[i] # {} =>
      LET commands == get_commands(feeder[i])
          versions == feeder[i].versions
      IN \A k \in 1..Len(commands) :
           IF k < Len(commands)
           THEN /\ commands[k][2].meta.next_version = Some(versions[k + 1])
                /\ commands[k][2].meta.versions.lt = Some(versions[k + 1])
                /\ versions[k + 1] > commands[k][2].meta.version
           ELSE /\ commands[k][2].meta.next_version = None
                /\ commands[k][2].meta.versions.lt = None

\* the query times: every version stamp, and one before and one after them
QueryTimes == (MinVersion - 1)..(MaxVersion + 1)

\* the indexes of the commands of a source document whose range holds T
MatchingRevisions(mongo_doc, T) ==
  {k \in 1..Len(get_commands(mongo_doc)) :
     InRange(get_commands(mongo_doc)[k][2].meta, T)}

\* C21: in the commands of every source document a process has taken, the
\* range of a revision holds a query time T exactly when T is at or after its
\* version and before the version of the revision that follows it (any T at
\* or after its version for the last revision); so at most one revision of
\* the record matches a T, and one does exactly when T is at or after the
\* record's earliest version.
C21_QueryableAtT ==
  \A i \in 1..Len(feeder) :
    received[i] # {} =>
      LET versions == feeder[i].versions
          commands == get_commands(feeder[i])
      IN \A T \in QueryTimes :
           /\ \A k \in 1..Len(commands) :
                InRange(commands[k][2].meta, T) <=>
                  /\ versions[k] <= T
                  /\ k < Len(versions) => T < versions[k + 1]
           /\ Cardinality(MatchingRevisions(feeder[i], T)) <= 1
           /\ Cardinality(MatchingRevisions(feeder[i], T)) = 1 <=>
                (versions # <<>> /\ T >= versions[1])

\* C22: when index() has returned, the versions of its report are ascending
\* without duplicates and are the meta.version values of the commands the
\* processes of all pairs created, and the sources of the report are the
\* collection names of the feeders, each once, in sorted order.
C22_ReportVersionsAndSources ==
  Returned =>
    /\ report # None
    /\ \A i, j \in 1..Len(report[1].versions) :
         i < j => report[1].versions[i] < report[1].versions[j]
    /\ Range(report[1].versions) = emitted
    /\ Range(report[1].sources) = {mongo_collection[p] : p \in 1..pair_total}
    /\ \/ report[1].sources \in {<<"a">>, <<"b">>}
       \/ report[1].sources = <<"a", "b">>

C22_Witness ==
  /\ Returned
  /\ pool_size = 2
  /\ pair_total = 2
  /\ mongo_collection[1] = "b" /\ mongo_collection[2] = "a"
  /\ report[1].sources = <<"a", "b">>
  /\ report[1].versions = <<1, 2>>
  /\ w_versions[0] = {1} /\ w_versions[1] = {1, 2}

\* the clean flag is set where index() starts and nowhere else
CleanComputedOnce ==
  IF cpc = "start" THEN clean' = IsClean(es_index) ELSE clean' = clean

\* the processes of a later pair run as on a clean insert: none has called
\* delete_by_query, and a batch that has been classified has every id of its
\* id buffer as created and none as updated
StaleCleanInsert ==
  (pair > 1 /\ clean) =>
    \A w \in Procs :
      /\ ~w_deleted[w]
      /\ wpc[w] # "delete"
      /\ (signal_stats /\ wpc[w] \in {"bulk", "stats_put"}) =>
           /\ Range(created[w]) = DOMAIN id_buffer[w]
           /\ updated[w] = <<>>

\* C23: the clean flag of the index is computed where index() starts, as the
\* index holding no document, and is not computed again; so with pairs that
\* share an index that was empty at the start, the processes of a later pair
\* run with is_clean_insert true, call no delete_by_query and classify every
\* id as created, whatever the earlier pairs have written.
C23_CleanFlagComputedOnce == [][CleanComputedOnce]_vars /\ []StaleCleanInsert

C23_Witness ==
  /\ pair = 2 /\ clean
  /\ signal_stats
  /\ \E w \in Procs :
       /\ wpc[w] = "bulk"
       /\ created[w] = <<1>>
       /\ Matching(es_index, {1}) # {}

\* where a process is while it is in send_to_elasticsearch
InFlush == {"send", "delete", "bulk", "stats_put"}

\* a process that took a document and went on to read the queue has fewer
\* than B commands buffered, one that went to flush has B or more; a flush
\* after the sentinel has a non-empty buffer; a process that has got past
\* the sentinel and its flush has submitted every command it buffered; and a
\* single process whose documents yield B commands in all never flushes
\* after the sentinel and has flushed once when index() returns
FlushesAtBulkSize ==
  /\ \A w \in Procs :
       /\ wpc[w] = "get" => Len(command_buffer[w]) < elasticsearch_bulk_size
       /\ (wpc[w] = "send" /\ ~residual[w]) =>
            Len(command_buffer[w]) >= elasticsearch_bulk_size
       /\ (wpc[w] \in InFlush /\ residual[w]) => command_buffer[w] # <<>>
       /\ wpc[w] \in {"result", "done"} => w_command_count[w] = CommandsReceived(w)
  /\ (pool_size = 1 /\ TotalCommands = elasticsearch_bulk_size) =>
       /\ ~(wpc[0] \in InFlush /\ residual[0])
       /\ Returned => flushes[0] = 1

\* a process comes back from send_to_elasticsearch with both buffers empty
BuffersEmptyAfterFlush ==
  \A w \in Procs :
    (wpc[w] \in InFlush /\ wpc'[w] \in {"get", "result"}) =>
      /\ command_buffer'[w] = <<>>
      /\ id_buffer'[w] = EmptyDict

\* a process comes back from send_to_elasticsearch in the loop with both
\* buffers empty, and after the sentinel with the buffers as they were
BuffersResetInLoop ==
  \A w \in Procs :
    /\ (wpc[w] \in InFlush /\ wpc'[w] = "get") =>
         /\ command_buffer'[w] = <<>>
         /\ id_buffer'[w] = EmptyDict
    /\ (wpc[w] \in InFlush /\ wpc'[w] = "result") =>
         /\ command_buffer'[w] = command_buffer[w]
         /\ id_buffer'[w] = id_buffer[w]

\* C24 as stated: a process flushes after a document exactly when its buffer
\* then holds B commands or more, and after the sentinel only a non-empty
\* buffer; a single process whose documents yield B commands in all flushes
\* once and not after the sentinel; and both buffers are empty after every
\* flush.
C24_FlushAtBulkSizeAllEmpty == []FlushesAtBulkSize /\ [][BuffersEmptyAfterFlush]_vars

\* C24, amended: the same, both buffers being empty after every flush of the
\* loop and left as they are after the flush that follows the sentinel.
C24_FlushAtBulkSize == []FlushesAtBulkSize /\ [][BuffersResetInLoop]_vars

C24_Witness ==
  /\ Returned
  /\ pool_size = 1
  /\ elasticsearch_bulk_size = 2
  /\ Len(feeder) = 2
  /\ \A i \in 1..2 : Len(get_commands(feeder[i])) = 1
  /\ flushes[0] = 1
  /\ w_command_count[0] = 2

\* the coordinator has observed an error: check_errors has taken it off the
\* error queue and is in, or has got through, its drain and its sentinels
ErrorObserved == error_string # None

\* where a process is while it is running
Running == {"get", "send", "delete", "bulk", "stats_put", "result"}

NotifiedAfterBulk ==
  /\ \A i \in 1..Len(stats_queue) :
       stats_queue[i] # None => DOMAIN stats_queue[i][1].ids \subseteq bulk_ok
  /\ last_tuple # None => DOMAIN last_tuple[1].ids \subseteq bulk_ok
  /\ \A i \in 1..Len(signals) : signals[i].record_id \in bulk_ok

\* the stats collector has read its sentinel, and before it every tuple that
\* was put on the stats queue
AllDispatched == spc = "done" /\ dispatched = pushed /\ stats_queue = <<>>

\* C26: with stats enabled, a tuple is put on the stats queue, and a created
\* or updated signal is sent for a record, only after the bulk request with
\* the record's commands was answered without errors; and in a run without
\* an exception the collector has read and dispatched every tuple when it
\* reads its sentinel, so before index() goes on to the statuses, sends the
\* finish signal and returns.
C26_DispatchedBeforeFinish ==
  /\ NotifiedAfterBulk
  /\ dispatched <= pushed
  /\ (exc = None /\ spc = "done") => AllDispatched
  /\ (signal_stats /\ exc = None /\ cpc \in {"finish", "finish_signal", "returned"}) =>
       AllDispatched
  /\ (signal_stats /\ finish_signals > 0) => AllDispatched

C26_Witness ==
  /\ Returned
  /\ signal_stats
  /\ pool_size = 2
  /\ finish_signals = 1
  /\ pushed = 2 /\ dispatched = 2
  /\ bulk_ok = {1, 2}
  /\ \A w \in 0..1 : flushes[w] = 1

RECURSIVE BatchOf(_)
\* the commands of the feeder documents with the numbers in docs, document
\* after document
BatchOf(docs) ==
  IF docs = {} THEN <<>>
  ELSE LET i == CHOOSE x \in docs : \A y \in docs : x <= y
       IN get_commands(feeder[i]) \o BatchOf(docs \ {i})

\* the record ids that have a command in the buffer
BufferedIds(buffer) == {buffer[k][1]._id[1] : k \in 1..Len(buffer)}

\* C27: when a process calls send_to_elasticsearch, the keys of its id
\* buffer are the record ids that have a command in its command buffer; the
\* command buffer is made of all the commands of some of the documents the
\* process took, no document being there in part; and the batch is not
\* empty, with fewer than B + k commands when the flush follows a document
\* of k commands, and fewer than B when it follows the sentinel.
C27_BatchesOfWholeDocuments ==
  \A w \in Procs :
    wpc[w] = "send" =>
      /\ DOMAIN id_buffer[w] = BufferedIds(command_buffer[w])
      /\ \E docs \in SUBSET {i \in 1..Len(feeder) : w \in received[i]} :
           command_buffer[w] = BatchOf(docs)
      /\ Len(command_buffer[w]) >= 1
      /\ IF residual[w]
         THEN Len(command_buffer[w]) < elasticsearch_bulk_size
         ELSE /\ last_doc[w] # 0
              /\ Len(command_buffer[w]) <
                   elasticsearch_bulk_size + Len(get_commands(feeder[last_doc[w]]))

C27_Witness ==
  \E w \in Procs :
    /\ wpc[w] = "send" /\ ~residual[w]
    /\ elasticsearch_bulk_size = 2
    /\ Len(command_buffer[w]) = 3
    /\ DOMAIN id_buffer[w] = {1, 2}
    /\ last_doc[w] = 2

\* the coordinator is in the loop that awaits the results of the pair, its
\* calls of check_errors included (the feeder is exhausted by then)
InResultLoop ==
  \/ cpc = "results"
  \/ cpc \in {"ce_empty", "ce_get", "ce_sentinels"} /\ doc_index = Len(feeder)

\* the coordinator leaves the result loop with one result of every process
\* of the pool, or with the IndexingException of check_errors
LeavesResultLoop ==
  (InResultLoop /\ ~InResultLoop') =>
    /\ cpc' = "restore"
    /\ \/ /\ exc' = None
          /\ process_pool = {}
          /\ \A w \in Procs : w < pool_size => posts[w] = <<"result">>
       \/ /\ IndexingExceptionRaised'
          /\ exc' = error_string

\* a process of the pair was interrupted
SomeInterrupted == \E w \in Procs : wpc[w] = "interrupted"

\* the coordinator is still at the pair: the next pair has not been started,
\* the refresh interval is not restored and index() has not ended
StillAtPair ==
  /\ cpc \in InPair
  /\ refresh_interval # "default"
  /\ finish_signals = 0

====
